---------------------------- MODULE Spec2Model ----------------------------
(***************************************************************************)
(* A model of yuka's ray casting (src/src/math/Ray.js: Ray and Obstacle)   *)
(* and of the first-person Player's keyboard handlers                      *)
(* (src/unnamed/part_000).                                                 *)
(*                                                                         *)
(* Numbers.  Coordinates of rays, boxes, spheres and meshes are integers.  *)
(* The values the code computes from them are modelled exactly:            *)
(*   - Num: an IEEE-like extended rational, [k, n, d] with k one of        *)
(*     "fin" (the reduced fraction n/d, d > 0), "pinf", "ninf", "nan";     *)
(*   - Surd: r + s * sqrt(q), the shape of the roots of the ray/sphere     *)
(*     equation for integer data and an axis-aligned unit direction.       *)
(***************************************************************************)
EXTENDS Integers, Sequences, FiniteSets, TLC

VARIABLES
    \* ---- Player (src/unnamed/part_000)
    input,                  \* this.input: forward / backward / right / left
    event,                  \* the host's global `event` (window.event)
    lastDown,               \* history: per flag, was its latest key event a keydown
    thrown,                 \* did the last handler invocation throw
    \* ---- Ray.js module-level scratch (lines 3-6)
    v1, edge1, edge2, normal,
    \* ---- Obstacle module-level scratch (lines 337-339)
    aabb, triangle, intersectionPointAABB,
    \* ---- objects owned by the caller
    ray,                    \* [origin, direction, nz]: nz = axes whose zero is -0
    sphere,                 \* BoundingSphere [center, radius]
    box,                    \* AABB argument of intersectAABB [min, max]
    tri,                    \* triangle argument of intersectTriangle [a, b, c]
    cull,                   \* backfaceCulling argument of intersectTriangle
    geometry,               \* MeshGeometry shared by the obstacles
    worldMatrix,            \* obstacle -> Matrix4
    obstacle,               \* receiver of the last intersectRay call
    result,                 \* result vector handed to AABB / triangle / obstacle
    sphereResult,           \* result vector handed to intersectBoundingSphere
    \* ---- the last call
    op,                     \* name of the last operation ("none" before any)
    ret,                    \* its return value: "null" or "result"
    log                     \* what intersectRay read and tested in the last call

playerVars == <<input, event, lastDown, thrown>>
rayScratch == <<v1, edge1, edge2, normal>>
obstacleScratch == <<aabb, triangle, intersectionPointAABB>>
callerVars == <<ray, sphere, box, tri, cull, geometry, worldMatrix, obstacle,
                result, sphereResult>>
callVars == <<op, ret, log>>
vars == <<playerVars, rayScratch, obstacleScratch, callerVars, callVars>>

Axes == {"x", "y", "z"}

---------------------------------------------------------------------------
(* Integer helpers *)

Abs(i) == IF i < 0 THEN -i ELSE i

Sgn(i) == IF i < 0 THEN -1 ELSE IF i > 0 THEN 1 ELSE 0

RECURSIVE Gcd(_, _)
Gcd(a, b) == IF b = 0 THEN a ELSE Gcd(b, a % b)

Min2(a, b) == IF a <= b THEN a ELSE b

Max2(a, b) == IF a >= b THEN a ELSE b

---------------------------------------------------------------------------
(* Num: the doubles the code computes, kept exact *)

NaN == [k |-> "nan", n |-> 0, d |-> 1]

PInf == [k |-> "pinf", n |-> 0, d |-> 1]

NInf == [k |-> "ninf", n |-> 0, d |-> 1]

\* the fraction n/d (d # 0) in lowest terms
Frac(n, d) ==
    IF d = 1 THEN [k |-> "fin", n |-> n, d |-> 1]
    ELSE LET g == Gcd(Abs(n), Abs(d))
             s == IF d < 0 THEN -1 ELSE 1
         IN [k |-> "fin", n |-> s * (n \div g), d |-> s * (d \div g)]

I2N(i) == [k |-> "fin", n |-> i, d |-> 1]

IsNaN(a) == a.k = "nan"

IsFin(a) == a.k = "fin"

\* sign of a non-NaN value
NSgn(a) == IF a.k = "pinf" THEN 1 ELSE IF a.k = "ninf" THEN -1 ELSE Sgn(a.n)

\* IEEE product: 0 * Infinity = NaN
NMul(a, b) ==
    IF IsNaN(a) \/ IsNaN(b) THEN NaN
    ELSE IF IsFin(a) /\ IsFin(b) THEN Frac(a.n * b.n, a.d * b.d)
    ELSE IF NSgn(a) * NSgn(b) = 0 THEN NaN
    ELSE IF NSgn(a) * NSgn(b) > 0 THEN PInf ELSE NInf

\* IEEE sum: Infinity + -Infinity = NaN
NAdd(a, b) ==
    IF IsNaN(a) \/ IsNaN(b) THEN NaN
    ELSE IF IsFin(a) /\ IsFin(b) THEN Frac(a.n * b.d + b.n * a.d, a.d * b.d)
    ELSE IF IsFin(a) THEN b
    ELSE IF IsFin(b) THEN a
    ELSE IF a.k = b.k THEN a ELSE NaN

\* IEEE a < b: false as soon as one side is NaN
NLt(a, b) ==
    /\ ~IsNaN(a)
    /\ ~IsNaN(b)
    /\ IF IsFin(a) /\ IsFin(b) THEN a.n * b.d < b.n * a.d
       ELSE IF a.k = b.k THEN FALSE
       ELSE a.k = "ninf" \/ b.k = "pinf"

NGt(a, b) == NLt(b, a)

\* IEEE a >= b: false as soon as one side is NaN
NGe(a, b) == ~IsNaN(a) /\ ~IsNaN(b) /\ ~NLt(a, b)

\* 1 / c for an integer c; negz tells whether a zero c is -0
Recip(c, negz) ==
    IF c = 0 THEN (IF negz THEN NInf ELSE PInf) ELSE Frac(1, c)

---------------------------------------------------------------------------
(* Vector3 *)

Vec(x, y, z) == [x |-> x, y |-> y, z |-> z, nan |-> FALSE]

\* A vector all of whose components are NaN.
NaNVec == [x |-> 0, y |-> 0, z |-> 0, nan |-> TRUE]

ZeroVec == Vec(0, 0, 0)

\* Vector3.subVectors( a, b )
subVectors(a, b) ==
    IF a.nan \/ b.nan THEN NaNVec ELSE Vec(a.x - b.x, a.y - b.y, a.z - b.z)

\* Vector3.crossVectors( a, b )
crossVectors(a, b) ==
    IF a.nan \/ b.nan THEN NaNVec
    ELSE Vec(a.y * b.z - a.z * b.y, a.z * b.x - a.x * b.z, a.x * b.y - a.y * b.x)

\* Vector3.dot( v ) of two finite vectors
dot(a, b) == a.x * b.x + a.y * b.y + a.z * b.z

\* a vector of Num components
NVec(x, y, z) == [x |-> x, y |-> y, z |-> z]

NZeroVec == NVec(I2N(0), I2N(0), I2N(0))

---------------------------------------------------------------------------
(* Player: keyboard handlers *)

KeyArrowUp == 38
KeyW == 87
KeyArrowLeft == 37
KeyA == 65
KeyArrowDown == 40
KeyS == 83
KeyArrowRight == 39
KeyD == 68
\* the key codes named by a case label of the two switch statements
BoundKeyCodes == {KeyArrowUp, KeyW, KeyArrowLeft, KeyA, KeyArrowDown, KeyS,
                  KeyArrowRight, KeyD}

\* a key code that takes the switch statements' implicit default branch
KeyOther == CHOOSE k \in 0..255 : k \notin BoundKeyCodes

KeyCodes == BoundKeyCodes \cup {KeyOther}

Flags == {"forward", "backward", "right", "left"}

\* the flag a key code is bound to by both switch statements, "none" otherwise
FlagOf(keyCode) ==
    IF keyCode \in {KeyArrowUp, KeyW} THEN "forward"
    ELSE IF keyCode \in {KeyArrowLeft, KeyA} THEN "left"
    ELSE IF keyCode \in {KeyArrowDown, KeyS} THEN "backward"
    ELSE IF keyCode \in {KeyArrowRight, KeyD} THEN "right"
    ELSE "none"

\* Player.constructor: this.input
InitInput == [f \in Flags |-> FALSE]

\* the switch of a handler: sets the flag of keyCode to value
SwitchSet(inp, keyCode, value) ==
    IF FlagOf(keyCode) = "none" THEN inp
    ELSE [inp EXCEPT ![FlagOf(keyCode)] = value]

UndefinedEvent == [keyCode |-> 0, defined |-> FALSE]

KeyEvent(keyCode) == [keyCode |-> keyCode, defined |-> TRUE]

\* What the free identifier `event` of onKeyUp evaluates to while the handler
\* runs for the delivered event e: the host's global, which a browser sets to
\* the event being dispatched and which is undefined when the handler is
\* invoked outside such a dispatch (or by a host without window.event).
GlobalEventDuring(e) == {e, UndefinedEvent}

\* function onKeyDown( event ): reads its parameter
onKeyDown(e) ==
    /\ input' = SwitchSet(input, e.keyCode, TRUE)
    /\ thrown' = FALSE
    /\ event' \in GlobalEventDuring(e)
    /\ lastDown' = IF FlagOf(e.keyCode) = "none" THEN lastDown
                   ELSE [lastDown EXCEPT ![FlagOf(e.keyCode)] = TRUE]

\* function onKeyUp(): declares no parameter and reads the global `event`;
\* event.keyCode of an undefined global throws before any flag is written
onKeyUp(e) ==
    /\ event' \in GlobalEventDuring(e)
    /\ IF event'.defined
       THEN input' = SwitchSet(input, event'.keyCode, FALSE) /\ thrown' = FALSE
       ELSE input' = input /\ thrown' = TRUE
    /\ lastDown' = IF FlagOf(e.keyCode) = "none" THEN lastDown
                   ELSE [lastDown EXCEPT ![FlagOf(e.keyCode)] = FALSE]

PlayerInit ==
    /\ input = InitInput
    /\ event = UndefinedEvent
    /\ lastDown = [f \in Flags |-> FALSE]
    /\ thrown = FALSE

---------------------------------------------------------------------------
(* Surd: r + s * sqrt(q), with q >= 0; s = 0 and q = 0 when rational *)

\* the integer square root of a perfect square, -1 for any other number
ExactRoot(q) ==
    IF \E i \in 0..q : i * i = q THEN CHOOSE i \in 0..q : i * i = q ELSE -1

Surd(r, s, q) ==
    IF s = 0 \/ q = 0 THEN [s |-> 0, q |-> 0, r |-> r]
    ELSE IF ExactRoot(q) >= 0 THEN [s |-> 0, q |-> 0, r |-> r + s * ExactRoot(q)]
    ELSE [s |-> s, q |-> q, r |-> r]

\* Math.sqrt( q ) for an integer q >= 0
Sqrt(q) == Surd(0, 1, q)

\* sign of r + s * sqrt(q)
SSgn(a) ==
    IF a.s = 0 THEN Sgn(a.r)
    ELSE IF a.r = 0 \/ Sgn(a.r) = Sgn(a.s) THEN Sgn(a.s)
    ELSE IF a.r * a.r > a.s * a.s * a.q THEN Sgn(a.r)
    ELSE IF a.r * a.r < a.s * a.s * a.q THEN Sgn(a.s)
    ELSE 0

\* i + a and i - a for an integer i
IntPlusSurd(i, a) == Surd(i + a.r, a.s, a.q)

IntMinusSurd(i, a) == Surd(i - a.r, -a.s, a.q)

\* i * a + j for integers i and j
SurdScaleAdd(i, a, j) == Surd(i * a.r + j, i * a.s, a.q)

\* a * a
SurdSquare(a) == Surd(a.r * a.r + a.s * a.s * a.q, 2 * a.r * a.s, a.q)

\* a + b + c for surds over one radicand
SurdSum3(a, b, c) ==
    LET q == Max2(a.q, Max2(b.q, c.q))
    IN Surd(a.r + b.r + c.r, a.s + b.s + c.s, q)

SZeroVec == NVec(Surd(0, 0, 0), Surd(0, 0, 0), Surd(0, 0, 0))

---------------------------------------------------------------------------
(* Ray *)

\* Ray.at( t, result ): result.copy( direction ).multiplyScalar( t ).add( origin )
at(r, t) ==
    NVec(NAdd(NMul(I2N(r.direction.x), t), I2N(r.origin.x)),
         NAdd(NMul(I2N(r.direction.y), t), I2N(r.origin.y)),
         NAdd(NMul(I2N(r.direction.z), t), I2N(r.origin.z)))

\* Ray.at( t, result ) for a root t of the sphere equation
atSurd(r, t) ==
    NVec(SurdScaleAdd(r.direction.x, t, r.origin.x),
         SurdScaleAdd(r.direction.y, t, r.origin.y),
         SurdScaleAdd(r.direction.z, t, r.origin.z))

\* a slip: the entry point whichever side of the origin it lies on
SpherePointEntryOnly(r, t0, t1) == atSurd(r, t0)

\* if ( t0 < 0 ) return this.at( t1, result ); return this.at( t0, result );
SpherePoint(r, t0, t1) ==
    IF SSgn(t0) < 0 THEN atSurd(r, t1) ELSE atSurd(r, t0)

\* Ray.intersectBoundingSphere( sphere, result ): the value returned, the
\* result vector and the scratch vector v1 after the call
intersectBoundingSphere(r, sph, res) ==
    LET v      == subVectors(sph.center, r.origin)
        tca    == dot(v, r.direction)
        d2     == dot(v, v) - tca * tca
        radius2 == sph.radius * sph.radius
        thc    == Sqrt(radius2 - d2)
        t0     == IntMinusSurd(tca, thc)
        t1     == IntPlusSurd(tca, thc)
    IN IF d2 > radius2 THEN [ret |-> "null", result |-> res, v1 |-> v]
       ELSE IF SSgn(t0) < 0 /\ SSgn(t1) < 0
            THEN [ret |-> "null", result |-> res, v1 |-> v]
       ELSE [ret |-> "result", result |-> SpherePoint(r, t0, t1), v1 |-> v]

\* a slip: no NaN test
FoldMinNoNaNTest(tmin, t) == IF NGt(t, tmin) THEN t ELSE tmin

\* if ( tymin > tmin || tmin !== tmin ) tmin = tymin, and the same for tzmin
FoldMin(tmin, t) == IF NGt(t, tmin) \/ IsNaN(tmin) THEN t ELSE tmin

\* if ( tymax < tmax || tmax !== tmax ) tmax = tymax, and the same for tzmax
FoldMax(tmax, t) == IF NLt(t, tmax) \/ IsNaN(tmax) THEN t ELSE tmax

\* a slip: the entry parameter even when it lies behind the origin
PointParamEntryOnly(tmin, tmax) == tmin

\* tmin >= 0 ? tmin : tmax
PointParam(tmin, tmax) == IF NGe(tmin, I2N(0)) THEN tmin ELSE tmax

\* Ray.intersectAABB( aabb, result ): the value returned and the result vector
intersectAABB(r, bb, res) ==
    LET origin  == r.origin
        invdirx == Recip(r.direction.x, "x" \in r.nz)
        invdiry == Recip(r.direction.y, "y" \in r.nz)
        invdirz == Recip(r.direction.z, "z" \in r.nz)
        tminx   == IF NGe(invdirx, I2N(0))
                   THEN NMul(I2N(bb.min.x - origin.x), invdirx)
                   ELSE NMul(I2N(bb.max.x - origin.x), invdirx)
        tmaxx   == IF NGe(invdirx, I2N(0))
                   THEN NMul(I2N(bb.max.x - origin.x), invdirx)
                   ELSE NMul(I2N(bb.min.x - origin.x), invdirx)
        tymin   == IF NGe(invdiry, I2N(0))
                   THEN NMul(I2N(bb.min.y - origin.y), invdiry)
                   ELSE NMul(I2N(bb.max.y - origin.y), invdiry)
        tymax   == IF NGe(invdiry, I2N(0))
                   THEN NMul(I2N(bb.max.y - origin.y), invdiry)
                   ELSE NMul(I2N(bb.min.y - origin.y), invdiry)
        tminxy  == FoldMin(tminx, tymin)
        tmaxxy  == FoldMax(tmaxx, tymax)
        tzmin   == IF NGe(invdirz, I2N(0))
                   THEN NMul(I2N(bb.min.z - origin.z), invdirz)
                   ELSE NMul(I2N(bb.max.z - origin.z), invdirz)
        tzmax   == IF NGe(invdirz, I2N(0))
                   THEN NMul(I2N(bb.max.z - origin.z), invdirz)
                   ELSE NMul(I2N(bb.min.z - origin.z), invdirz)
        tmin    == FoldMin(tminxy, tzmin)
        tmax    == FoldMax(tmaxxy, tzmax)
    IN IF NGt(tminx, tymax) \/ NGt(tymin, tmaxx)
       THEN [ret |-> "null", result |-> res]
       ELSE IF NGt(tminxy, tzmax) \/ NGt(tzmin, tmaxxy)
       THEN [ret |-> "null", result |-> res]
       ELSE IF NLt(tmax, I2N(0))
       THEN [ret |-> "null", result |-> res]
       ELSE [ret |-> "result",
             result |-> at(r, PointParam(tmin, tmax))]

\* edge1.subVectors( b, a ); edge2.subVectors( c, a );
\* normal.crossVectors( edge1, edge2 )
TriangleEdges(t) ==
    [edge1 |-> subVectors(t.b, t.a), edge2 |-> subVectors(t.c, t.a),
     normal |-> crossVectors(subVectors(t.b, t.a), subVectors(t.c, t.a))]

\* a slip: v1 is read as the last call left it
OriginOffsetStale(sc, r, t) == sc.v1

\* v1.subVectors( this.origin, a ) on the scratch vectors sc
OriginOffset(sc, r, t) == subVectors(r.origin, t.a)

\* a slip: the flag culls both faces
CulledEitherFace(DdN, backfaceCulling) == backfaceCulling

\* if ( DdN > 0 ) { if ( backfaceCulling ) return null; ...
Culled(DdN, backfaceCulling) == DdN > 0 /\ backfaceCulling

\* a slip: the edge opposite a is excluded
BarySumRejectsEdge(DdQxE2, DdE1xQ, DdN) == DdQxE2 + DdE1xQ >= DdN

\* if ( DdQxE2 + DdE1xQ > DdN ) return null
BarySumRejects(DdQxE2, DdE1xQ, DdN) == DdQxE2 + DdE1xQ > DdN

\* Ray.intersectTriangle( triangle, backfaceCulling, result ), run on the scratch
\* vectors sc = [v1, edge1, edge2, normal]: the value returned, the result
\* vector and the scratch vectors after the call.  A vertex that is NaN makes
\* normal, and with it DdN, NaN: neither DdN > 0 nor DdN < 0 holds.
intersectTriangle(sc, r, t, backfaceCulling, res) ==
    LET es      == TriangleEdges(t)
        e1      == es.edge1
        e2      == es.edge2
        nrm     == es.normal
        DdN0    == dot(r.direction, nrm)
        sign    == IF DdN0 > 0 THEN 1 ELSE -1
        DdN     == IF DdN0 > 0 THEN DdN0 ELSE -DdN0
        q       == OriginOffset(sc, r, t)
        e2x     == crossVectors(q, e2)
        DdQxE2  == sign * dot(r.direction, e2x)
        e1x     == crossVectors(e1, q)
        DdE1xQ  == sign * dot(r.direction, e1x)
        QdN     == (-sign) * dot(q, nrm)
        early   == [ret |-> "null", result |-> res, v1 |-> sc.v1,
                    edge1 |-> e1, edge2 |-> e2, normal |-> nrm]
    IN IF nrm.nan THEN early
       ELSE IF Culled(DdN0, backfaceCulling) THEN early
       ELSE IF DdN0 = 0 THEN early
       ELSE IF DdQxE2 < 0
       THEN [ret |-> "null", result |-> res, v1 |-> q,
             edge1 |-> e1, edge2 |-> e2x, normal |-> nrm]
       ELSE IF DdE1xQ < 0
       THEN [ret |-> "null", result |-> res, v1 |-> q,
             edge1 |-> e1x, edge2 |-> e2x, normal |-> nrm]
       ELSE IF BarySumRejects(DdQxE2, DdE1xQ, DdN)
       THEN [ret |-> "null", result |-> res, v1 |-> q,
             edge1 |-> e1x, edge2 |-> e2x, normal |-> nrm]
       ELSE IF QdN < 0
       THEN [ret |-> "null", result |-> res, v1 |-> q,
             edge1 |-> e1x, edge2 |-> e2x, normal |-> nrm]
       ELSE [ret |-> "result", result |-> at(r, Frac(QdN, DdN)), v1 |-> q,
             edge1 |-> e1x, edge2 |-> e2x, normal |-> nrm]

---------------------------------------------------------------------------
(* Matrix4, AABB and MeshGeometry, as far as Obstacle.intersectRay uses them *)

\* Matrix4 with the elements in column-major order, as an affine map of
\* integers: the linear part by rows, and the translation.
Mat(r1, r2, r3, tr) ==
    <<r1[1], r2[1], r3[1], 0, r1[2], r2[2], r3[2], 0,
      r1[3], r2[3], r3[3], 0, tr[1], tr[2], tr[3], 1>>

\* m.elements[ i ]
El(m, i) == m[i + 1]

\* Vector3.applyMatrix4( m ) for an affine m (w = 1); a component that is not
\* a number makes every component NaN
applyMatrix4(v, m) ==
    IF v.nan THEN NaNVec
    ELSE Vec(El(m, 0) * v.x + El(m, 4) * v.y + El(m, 8) * v.z + El(m, 12),
             El(m, 1) * v.x + El(m, 5) * v.y + El(m, 9) * v.z + El(m, 13),
             El(m, 2) * v.x + El(m, 6) * v.y + El(m, 10) * v.z + El(m, 14))

SetMin(S) == CHOOSE i \in S : \A j \in S : i <= j

SetMax(S) == CHOOSE i \in S : \A j \in S : i >= j

\* the eight corners of a box
Corners(bb) ==
    {Vec(x, y, z) : x \in {bb.min.x, bb.max.x}, y \in {bb.min.y, bb.max.y},
                    z \in {bb.min.z, bb.max.z}}

\* AABB.applyMatrix4( m ): the axis-aligned box around the transformed corners
aabbApplyMatrix4(bb, m) ==
    LET P == {applyMatrix4(p, m) : p \in Corners(bb)}
    IN [min |-> Vec(SetMin({p.x : p \in P}), SetMin({p.y : p \in P}),
                    SetMin({p.z : p \in P})),
        max |-> Vec(SetMax({p.x : p \in P}), SetMax({p.y : p \in P}),
                    SetMax({p.z : p \in P}))]

\* geometry.indices === null
NullIndices == [null |-> TRUE, data |-> <<>>]

Indices(data) == [null |-> FALSE, data |-> data]

\* a value read from an array: a number, or undefined
Undefined == [undef |-> TRUE, v |-> 0]

Number(v) == [undef |-> FALSE, v |-> v]

\* array[ k ] for a number or undefined k (k * stride + j of an undefined
\* index is NaN, and array[ NaN ] is undefined)
Read(array, k) ==
    IF k.undef \/ k.v < 0 \/ k.v >= Len(array) THEN Undefined
    ELSE Number(array[k.v + 1])

\* k * stride + j as the code computes it from a value read from indices
Offset(k, stride, j) ==
    IF k.undef THEN Undefined ELSE Number(k.v * stride + j)

\* Vector3.set( x, y, z ) of values read from vertices
set(x, y, z) ==
    IF x.undef \/ y.undef \/ z.undef THEN NaNVec ELSE Vec(x.v, y.v, z.v)

---------------------------------------------------------------------------
(* Obstacle.intersectRay.  The module state a call works on is the record  *)
(* st = [v1, edge1, edge2, normal, aabb, triangle, intersectionPointAABB,  *)
(* geometry, result, ret, log].                                            *)

EmptyLog == [vertexReads |-> 0, indexReads |-> 0, tests |-> <<>>]

\* triangle.a.set(..), .b.set(..), .c.set(..) and the three applyMatrix4 calls
\* for the vertex offsets ia, ib, ic into vertices (lines 392-398, 420-426)
LoadTriangle(vertices, ia, ib, ic, m) ==
    LET vert(k) == applyMatrix4(set(Read(vertices, Offset(k, 1, 0)),
                                    Read(vertices, Offset(k, 1, 1)),
                                    Read(vertices, Offset(k, 1, 2))), m)
    IN [a |-> vert(ia), b |-> vert(ib), c |-> vert(ic)]

\* ray.intersectTriangle( triangle, geometry.backfaceCulling, result ) on the
\* module state st, for the triangle just loaded (lines 400, 428)
TestTriangle(st, r, t, vreads, ireads) ==
    LET out == intersectTriangle(
                   [v1 |-> st.v1, edge1 |-> st.edge1, edge2 |-> st.edge2,
                    normal |-> st.normal],
                   r, t, st.geometry.backfaceCulling, st.result)
    IN [st EXCEPT !.triangle = t,
                  !.v1 = out.v1, !.edge1 = out.edge1, !.edge2 = out.edge2,
                  !.normal = out.normal, !.result = out.result, !.ret = out.ret,
                  !.log = [vertexReads |-> @.vertexReads + vreads,
                           indexReads |-> @.indexReads + ireads,
                           tests |-> Append(@.tests, t)]]

\* a slip: no return inside the loop
ScanNeverStops(st) == TRUE

\* if ( ray.intersectTriangle( .. ) !== null ) return result: the scan goes on
\* only after a triangle that is not hit
ScanGoesOn(st) == st.ret = "null"

\* for ( let i = 0, l = vertices.length; i < l; i += 9 ): non-indexed geometry
RECURSIVE nonIndexedLoop(_, _, _, _, _)
nonIndexedLoop(i, l, st, r, m) ==
    IF i >= l THEN [st EXCEPT !.ret = "null"]
    ELSE LET t  == LoadTriangle(st.geometry.vertices, Number(i), Number(i + 3),
                                Number(i + 6), m)
             s2 == TestTriangle(st, r, t, 9, 0)
         IN IF ScanGoesOn(s2) THEN nonIndexedLoop(i + 9, l, s2, r, m) ELSE s2

\* for ( let i = 0, l = indices.length; i < l; i += 3 ): indexed geometry
RECURSIVE indexedLoop(_, _, _, _, _)
indexedLoop(i, l, st, r, m) ==
    IF i >= l THEN [st EXCEPT !.ret = "null"]
    ELSE LET indices == st.geometry.indices.data
             a  == Read(indices, Number(i))
             b  == Read(indices, Number(i + 1))
             c  == Read(indices, Number(i + 2))
             stride == 3
             t  == LoadTriangle(st.geometry.vertices, Offset(a, stride, 0),
                                Offset(b, stride, 0), Offset(c, stride, 0), m)
             s2 == TestTriangle(st, r, t, 9, 3)
         IN IF ScanGoesOn(s2) THEN indexedLoop(i + 3, l, s2, r, m) ELSE s2

\* a slip: geometry.aabb itself is transformed, not a copy of it
WorldBoxInPlace(geom, m) ==
    [aabb |-> aabbApplyMatrix4(geom.aabb, m),
     geometryAabb |-> aabbApplyMatrix4(geom.aabb, m)]

\* aabb.copy( geometry.aabb ).applyMatrix4( this.worldMatrix ): the scratch
\* box, and geometry.aabb, after the statement
WorldBox(geom, m) ==
    [aabb |-> aabbApplyMatrix4(geom.aabb, m), geometryAabb |-> geom.aabb]

\* a slip: the triangles are scanned whatever the bounding volume test says
NarrowPhaseAlways(broad) == TRUE

\* if ( ray.intersectAABB( aabb, intersectionPointAABB ) !== null )
NarrowPhaseRuns(broad) == broad.ret # "null"

\* Obstacle.intersectRay( ray, result ) of an obstacle with world matrix m
intersectRay(st, m, r) ==
    LET wb    == WorldBox(st.geometry, m)
        broad == intersectAABB(r, wb.aabb, st.intersectionPointAABB)
        s1    == [st EXCEPT !.aabb = wb.aabb,
                            !.geometry.aabb = wb.geometryAabb,
                            !.intersectionPointAABB = broad.result,
                            !.ret = "null",
                            !.log = EmptyLog]
    IN IF NarrowPhaseRuns(broad)
       THEN IF s1.geometry.indices.null
            THEN nonIndexedLoop(0, Len(s1.geometry.vertices), s1, r, m)
            ELSE indexedLoop(0, Len(s1.geometry.indices.data), s1, r, m)
       ELSE s1

---------------------------------------------------------------------------
(* Initial values *)

\* the scratch objects as the two modules construct them
ModuleInit ==
    /\ v1 = ZeroVec
    /\ edge1 = ZeroVec
    /\ edge2 = ZeroVec
    /\ normal = ZeroVec
    /\ aabb = [min |-> ZeroVec, max |-> ZeroVec]
    /\ triangle = [a |-> ZeroVec, b |-> ZeroVec, c |-> ZeroVec]
    /\ intersectionPointAABB = NZeroVec

NoCall ==
    /\ op = "none"
    /\ ret = "null"
    /\ log = EmptyLog

Identity == Mat(<<1, 0, 0>>, <<0, 1, 0>>, <<0, 0, 1>>, <<0, 0, 0>>)

Obstacles == {"o1", "o2"}

DefaultRay == [direction |-> Vec(0, 0, 1), origin |-> ZeroVec, nz |-> {}]

DefaultSphere == [center |-> ZeroVec, radius |-> 1]

DefaultBox == [min |-> Vec(-1, -1, -1), max |-> Vec(1, 1, 1)]

DefaultTri == [a |-> Vec(-1, 0, 0), b |-> Vec(1, 0, 0), c |-> Vec(0, 1, 0)]

DefaultGeometry ==
    [aabb |-> [min |-> ZeroVec, max |-> ZeroVec], backfaceCulling |-> TRUE,
     vertices |-> <<>>, indices |-> NullIndices]

SphereIdle == sphere = DefaultSphere /\ sphereResult = SZeroVec

BoxIdle == box = DefaultBox

TriIdle == tri = DefaultTri /\ cull = FALSE

MeshIdle ==
    /\ geometry = DefaultGeometry
    /\ worldMatrix = [o \in Obstacles |-> Identity]
    /\ obstacle = "o1"

---------------------------------------------------------------------------
(* Bounds of the inputs *)

\* coordinates of ray origins range over -MaxCoord .. MaxCoord
MaxCoord == 2

\* components of ray directions range over -MaxDir .. MaxDir
MaxDir == 1

\* radii of bounding spheres range over 0 .. MaxRadius
MaxRadius == 2

Coord == (-MaxCoord)..MaxCoord

Points == {Vec(x, y, z) : x \in Coord, y \in Coord, z \in Coord}

UnitAxisDirs ==
    {Vec(1, 0, 0), Vec(-1, 0, 0), Vec(0, 1, 0), Vec(0, -1, 0), Vec(0, 0, 1),
     Vec(0, 0, -1)}

---------------------------------------------------------------------------
(* SpecSphere: one call of Ray.intersectBoundingSphere on drawn inputs *)

SphereRays ==
    {[direction |-> d, origin |-> o, nz |-> {}] : o \in Points, d \in UnitAxisDirs}

Spheres ==
    {[center |-> c, radius |-> rad] :
        c \in {ZeroVec, Vec(1, 0, -1)}, rad \in 0..MaxRadius}

\* ray.intersectBoundingSphere( s, sphereResult ) on the ray r
SphereCall(r, s) ==
    \E out \in {intersectBoundingSphere(r, s, sphereResult)} :
       /\ ray' = r
       /\ sphere' = s
       /\ v1' = out.v1
       /\ sphereResult' = out.result
       /\ ret' = out.ret
       /\ op' = "intersectBoundingSphere"
       /\ UNCHANGED <<playerVars, edge1, edge2, normal, obstacleScratch, box, tri,
                      cull, geometry, worldMatrix, obstacle, result, log>>

SphereInit ==
    /\ PlayerInit /\ ModuleInit /\ NoCall
    /\ ray \in SphereRays
    /\ sphere \in Spheres
    /\ sphereResult = SZeroVec
    /\ result = NZeroVec
    /\ BoxIdle /\ TriIdle /\ MeshIdle

SphereNext == op = "none" /\ SphereCall(ray, sphere)

SpecSphere == SphereInit /\ [][SphereNext]_vars

SphereDone == op = "intersectBoundingSphere"

\* the roots of |origin + t * direction - center|^2 = radius^2
RefTca == dot(subVectors(sphere.center, ray.origin), ray.direction)

RefD2 ==
    dot(subVectors(sphere.center, ray.origin),
        subVectors(sphere.center, ray.origin)) - RefTca * RefTca

LineMeetsSphere == RefD2 <= sphere.radius * sphere.radius

RefT0 == IntMinusSurd(RefTca, Sqrt(sphere.radius * sphere.radius - RefD2))

RefT1 == IntPlusSurd(RefTca, Sqrt(sphere.radius * sphere.radius - RefD2))

StrictlyInside ==
    dot(subVectors(ray.origin, sphere.center),
        subVectors(ray.origin, sphere.center)) < sphere.radius * sphere.radius

\* the parameter t of sphereResult on the ray (the direction has length 1)
ReturnedT ==
    SurdSum3(
        SurdScaleAdd(ray.direction.x, sphereResult.x, -ray.direction.x * ray.origin.x),
        SurdScaleAdd(ray.direction.y, sphereResult.y, -ray.direction.y * ray.origin.y),
        SurdScaleAdd(ray.direction.z, sphereResult.z, -ray.direction.z * ray.origin.z))

\* sphereResult = origin + ReturnedT * direction
OnRay == sphereResult = atSurd(ray, ReturnedT)

\* |sphereResult - center|^2 = radius^2
OnSphere ==
    SurdSum3(SurdSquare(SurdScaleAdd(1, sphereResult.x, -sphere.center.x)),
             SurdSquare(SurdScaleAdd(1, sphereResult.y, -sphere.center.y)),
             SurdSquare(SurdScaleAdd(1, sphereResult.z, -sphere.center.z)))
        = Surd(sphere.radius * sphere.radius, 0, 0)

\* direction . (sphereResult - center): > 0 where the ray leaves the sphere,
\* < 0 where it enters
Outward ==
    SurdSum3(
        SurdScaleAdd(ray.direction.x, sphereResult.x, -ray.direction.x * sphere.center.x),
        SurdScaleAdd(ray.direction.y, sphereResult.y, -ray.direction.y * sphere.center.y),
        SurdScaleAdd(ray.direction.z, sphereResult.z, -ray.direction.z * sphere.center.z))

\* C7 as stated: origin strictly inside => the exit point at t1 > 0, never
\* null and never the entry point; both roots negative => null; otherwise
\* (the line meets the sphere) the entry point at t0 >= 0; every point
\* returned has t >= 0.
C7_AsStated ==
    SphereDone =>
        /\ StrictlyInside =>
              /\ ret = "result"
              /\ sphereResult = atSurd(ray, RefT1)
              /\ sphereResult # atSurd(ray, RefT0)
              /\ SSgn(RefT1) > 0
        /\ (LineMeetsSphere /\ SSgn(RefT0) < 0 /\ SSgn(RefT1) < 0) => ret = "null"
        /\ (LineMeetsSphere /\ ~StrictlyInside
                /\ ~(SSgn(RefT0) < 0 /\ SSgn(RefT1) < 0)) =>
              /\ ret = "result"
              /\ sphereResult = atSurd(ray, RefT0)
              /\ SSgn(RefT0) >= 0
        /\ ret = "result" => SSgn(ReturnedT) >= 0

\* C7 amended: as stated, except that the entry point at t0 is returned only
\* when t0 >= 0; an origin on the sphere whose ray leaves it (t0 < 0, t1 = 0)
\* gets the exit point at t1 = 0, the origin itself.  A point returned lies on
\* the ray at t >= 0 and on the sphere; a line that misses the sphere gives
\* null.
C7_RootSelection ==
    SphereDone =>
        /\ StrictlyInside =>
              /\ ret = "result"
              /\ sphereResult = atSurd(ray, RefT1)
              /\ sphereResult # atSurd(ray, RefT0)
              /\ SSgn(RefT1) > 0
              /\ SSgn(Outward) > 0
        /\ (LineMeetsSphere /\ SSgn(RefT0) < 0 /\ SSgn(RefT1) < 0) => ret = "null"
        /\ (LineMeetsSphere /\ SSgn(RefT0) >= 0) =>
              /\ ret = "result"
              /\ sphereResult = atSurd(ray, RefT0)
              /\ SSgn(Outward) <= 0
        /\ (LineMeetsSphere /\ SSgn(RefT0) < 0 /\ SSgn(RefT1) = 0) =>
              /\ ret = "result"
              /\ sphereResult = atSurd(ray, RefT1)
              /\ sphereResult = NVec(Surd(ray.origin.x, 0, 0),
                                     Surd(ray.origin.y, 0, 0),
                                     Surd(ray.origin.z, 0, 0))
        /\ ~LineMeetsSphere => ret = "null"
        /\ ret = "result" => SSgn(ReturnedT) >= 0 /\ OnRay /\ OnSphere

\* an origin strictly inside, off the centre, with irrational roots: the exit
\* point was returned
C7_Witness ==
    /\ SphereDone
    /\ StrictlyInside
    /\ ret = "result"
    /\ sphereResult = atSurd(ray, RefT1)
    /\ RefT1.s # 0
    /\ RefTca # 0

---------------------------------------------------------------------------
(* SpecAABB: one call of Ray.intersectAABB on drawn inputs *)

DirComp == (-MaxDir)..MaxDir

Dirs ==
    {Vec(x, y, z) : x \in DirComp, y \in DirComp, z \in DirComp} \ {ZeroVec}

\* the axes on which a direction is zero
ZeroAxes(d) == {ax \in Axes : d[ax] = 0}

\* every ray of the grid, a zero direction component being +0 or -0
SignedRays ==
    {[direction |-> dn[1], origin |-> o, nz |-> dn[2]] :
        o \in Points,
        dn \in UNION {{<<d, z>> : z \in SUBSET ZeroAxes(d)} : d \in Dirs}}

Boxes ==
    {[min |-> Vec(-1, -1, -1), max |-> Vec(1, 1, 1)],
     [min |-> Vec(0, 0, 0), max |-> Vec(0, 0, 0)],
     [min |-> Vec(-1, 0, -1), max |-> Vec(1, 0, 2)],
     [min |-> Vec(0, -1, 1), max |-> Vec(2, 1, 2)]}

\* the largest absolute coordinate of a box of Boxes
BoxReach ==
    SetMax(UNION {{Abs(b.min[ax]), Abs(b.max[ax])} : b \in Boxes, ax \in Axes})

\* ray.intersectAABB( bb, result ) on the ray r
AABBCall(r, bb) ==
    \E out \in {intersectAABB(r, bb, result)} :
       /\ ray' = r
       /\ box' = bb
       /\ result' = out.result
       /\ ret' = out.ret
       /\ op' = "intersectAABB"
       /\ UNCHANGED <<playerVars, rayScratch, obstacleScratch, sphere, tri, cull,
                      geometry, worldMatrix, obstacle, sphereResult, log>>

AABBInit ==
    /\ PlayerInit /\ ModuleInit /\ NoCall
    /\ ray \in SignedRays
    /\ box \in Boxes
    /\ result = NZeroVec
    /\ SphereIdle /\ TriIdle /\ MeshIdle

AABBNext == op = "none" /\ AABBCall(ray, box)

SpecAABB == AABBInit /\ [][AABBNext]_vars

AABBDone == op = "intersectAABB"

RECURSIVE Factorial(_)
Factorial(n) == IF n <= 1 THEN 1 ELSE n * Factorial(n - 1)

\* every direction component divides TScale
TScale == Factorial(MaxDir)

\* Some t >= 0 has origin + t * direction in the closed box.  When there is
\* one, there is one among the multiples of 1 / TScale up to the largest
\* distance between an origin and a box face.
SomePointInBox ==
    \E k \in 0..(TScale * (MaxCoord + BoxReach)) :
        \A ax \in Axes :
            /\ box.min[ax] * TScale <= ray.origin[ax] * TScale + k * ray.direction[ax]
            /\ ray.origin[ax] * TScale + k * ray.direction[ax] <= box.max[ax] * TScale

AxisParallel == ZeroAxes(ray.direction) # {}

\* an origin on a face plane of an axis the ray does not move along: the
\* products 0 * Infinity of the slab test
OnFacePlane ==
    \E ax \in ZeroAxes(ray.direction) :
        ray.origin[ax] = box.min[ax] \/ ray.origin[ax] = box.max[ax]

\* C5: for a ray with one or two zero direction components (+0 or -0),
\* intersectAABB returns a point exactly when some t >= 0 has
\* origin + t * direction in the closed box, also when the origin lies on a
\* face plane of a zero-direction axis.
C5_AxisParallelDecision ==
    (AABBDone /\ AxisParallel) => (ret = "result" <=> SomePointInBox)

\* an origin on a face plane of a zero axis: a hit ...
C5_Witness ==
    /\ AABBDone /\ AxisParallel /\ OnFacePlane
    /\ "z" \in ZeroAxes(ray.direction)
    /\ ray.nz # {}
    /\ ray.origin.z = box.max.z
    /\ ret = "result"

\* the t interval on which the ray is within the slab of an axis it moves along
AxisLo(ax) ==
    IF ray.direction[ax] > 0
    THEN Frac(box.min[ax] - ray.origin[ax], ray.direction[ax])
    ELSE Frac(box.max[ax] - ray.origin[ax], ray.direction[ax])

AxisHi(ax) ==
    IF ray.direction[ax] > 0
    THEN Frac(box.max[ax] - ray.origin[ax], ray.direction[ax])
    ELSE Frac(box.min[ax] - ray.origin[ax], ray.direction[ax])

Moving == Axes \ ZeroAxes(ray.direction)

\* the t interval [RefTmin, RefTmax] on which the line is within every slab
RefTmin ==
    LET ax == CHOOSE a \in Moving : \A b \in Moving : ~NLt(AxisLo(a), AxisLo(b))
    IN AxisLo(ax)

RefTmax ==
    LET ax == CHOOSE a \in Moving : \A b \in Moving : ~NLt(AxisHi(b), AxisHi(a))
    IN AxisHi(ax)

LineMeetsBox ==
    /\ \A ax \in ZeroAxes(ray.direction) :
           box.min[ax] <= ray.origin[ax] /\ ray.origin[ax] <= box.max[ax]
    /\ ~NLt(RefTmax, RefTmin)

\* the parameter of result on the ray, read off an axis the ray moves along
ReturnedParam ==
    LET ax == CHOOSE a \in Moving : TRUE
    IN NMul(NAdd(result[ax], I2N(-ray.origin[ax])), Frac(1, ray.direction[ax]))

\* result lies in the closed box and on one of its face planes
OnBoxSurface ==
    /\ \A ax \in Axes :
           /\ NGe(result[ax], I2N(box.min[ax]))
           /\ NGe(I2N(box.max[ax]), result[ax])
    /\ \E ax \in Axes :
           result[ax] = I2N(box.min[ax]) \/ result[ax] = I2N(box.max[ax])

---------------------------------------------------------------------------
(* SpecTri: one call of Ray.intersectTriangle on drawn inputs *)

PlainRays ==
    {[direction |-> d, origin |-> o, nz |-> {}] : o \in Points, d \in Dirs}

Triangles ==
    {[a |-> Vec(-1, 0, 0), b |-> Vec(1, 0, 0), c |-> Vec(0, 1, 0)],
     [a |-> Vec(-1, 0, 0), b |-> Vec(0, 1, 0), c |-> Vec(1, 0, 0)],
     [a |-> Vec(1, 0, 0), b |-> Vec(0, 1, 0), c |-> Vec(0, 0, 1)],
     [a |-> Vec(-2, -2, 1), b |-> Vec(2, -2, 1), c |-> Vec(-2, 2, 1)],
     [a |-> Vec(0, 0, 0), b |-> Vec(2, 0, 0), c |-> Vec(0, 0, 2)],
     [a |-> Vec(-1, 0, 0), b |-> Vec(0, 0, 0), c |-> Vec(1, 0, 0)],
     [a |-> Vec(1, 1, 1), b |-> Vec(1, 1, 1), c |-> Vec(1, 1, 1)]}

\* ray.intersectTriangle( t, backfaceCulling, result ) on the ray r
TriangleCall(r, t, backfaceCulling) ==
    \E out \in {intersectTriangle(
                   [v1 |-> v1, edge1 |-> edge1, edge2 |-> edge2, normal |-> normal],
                   r, t, backfaceCulling, result)} :
       /\ ray' = r
       /\ tri' = t
       /\ cull' = backfaceCulling
       /\ v1' = out.v1
       /\ edge1' = out.edge1
       /\ edge2' = out.edge2
       /\ normal' = out.normal
       /\ result' = out.result
       /\ ret' = out.ret
       /\ op' = "intersectTriangle"
       /\ UNCHANGED <<playerVars, obstacleScratch, sphere, box, geometry,
                      worldMatrix, obstacle, sphereResult, log>>

TriInit ==
    /\ PlayerInit /\ ModuleInit /\ NoCall
    /\ ray \in PlainRays
    /\ tri \in Triangles
    /\ cull \in BOOLEAN
    /\ result = NZeroVec
    /\ SphereIdle /\ BoxIdle /\ MeshIdle

TriNext == op = "none" /\ TriangleCall(ray, tri, cull)

SpecTri == TriInit /\ [][TriNext]_vars

TriDone == op = "intersectTriangle"

\* (b - a) x (c - a)
RefNormal(t) == crossVectors(subVectors(t.b, t.a), subVectors(t.c, t.a))

\* the point of the ray r's line on the plane of t (direction . normal # 0)
RefPlaneT(r, t) ==
    Frac(dot(subVectors(t.a, r.origin), RefNormal(t)), dot(r.direction, RefNormal(t)))

NSubInt(P, a) == NVec(NAdd(P.x, I2N(-a.x)), NAdd(P.y, I2N(-a.y)), NAdd(P.z, I2N(-a.z)))

\* u x w for an integer vector u and a Num vector w
CrossIntN(u, w) ==
    NVec(NAdd(NMul(I2N(u.y), w.z), NMul(I2N(-u.z), w.y)),
         NAdd(NMul(I2N(u.z), w.x), NMul(I2N(-u.x), w.z)),
         NAdd(NMul(I2N(u.x), w.y), NMul(I2N(-u.y), w.x)))

NDotInt(w, u) ==
    NAdd(NAdd(NMul(w.x, I2N(u.x)), NMul(w.y, I2N(u.y))), NMul(w.z, I2N(u.z)))

\* ((q - p) x (P - p)) . normal: >= 0 when P is on the inner side of edge pq
EdgeSide(p, q, P, t) == NDotInt(CrossIntN(subVectors(q, p), NSubInt(P, p)), RefNormal(t))

\* a point P of the plane of t lies in the closed triangle
InClosedTriangle(P, t) ==
    /\ NGe(EdgeSide(t.a, t.b, P, t), I2N(0))
    /\ NGe(EdgeSide(t.b, t.c, P, t), I2N(0))
    /\ NGe(EdgeSide(t.c, t.a, P, t), I2N(0))

\* the ray r meets the closed triangle t: its line crosses the plane, at a
\* t >= 0, in the triangle
RefTriHit(r, t) ==
    /\ dot(r.direction, RefNormal(t)) # 0
    /\ NGe(RefPlaneT(r, t), I2N(0))
    /\ InClosedTriangle(at(r, RefPlaneT(r, t)), t)

\* C3: without backface culling, intersectTriangle returns a point exactly
\* when direction . normal # 0 and the point of the line on the plane has
\* t >= 0 and lies in the closed triangle (edges, vertices and t = 0
\* included); the point returned is that point.
C3_AcceptRejectBoundary ==
    (TriDone /\ ~cull) =>
        /\ ret = "result" <=> RefTriHit(ray, tri)
        /\ ret = "result" => result = at(ray, RefPlaneT(ray, tri))

\* a hit accepted on the edge bc (barycentric sum equal to DdN), off the
\* vertices, at a fractional t
C3_Witness ==
    /\ TriDone /\ ~cull /\ ret = "result"
    /\ EdgeSide(tri.b, tri.c, result, tri) = I2N(0)
    /\ EdgeSide(tri.a, tri.b, result, tri) # I2N(0)
    /\ EdgeSide(tri.c, tri.a, result, tri) # I2N(0)
    /\ RefPlaneT(ray, tri).d # 1

\* a hit accepted at t = 0
C3_WitnessOrigin ==
    /\ TriDone /\ ~cull /\ ret = "result"
    /\ RefPlaneT(ray, tri) = I2N(0)

\* C4: a ray that meets the triangle from behind (direction . normal > 0)
\* gets null with backfaceCulling and the hit point without; for
\* direction . normal < 0 the outcome is the one the geometry decides,
\* whatever the flag.
C4_BackfaceCulling ==
    TriDone =>
        /\ (dot(ray.direction, RefNormal(tri)) > 0 /\ RefTriHit(ray, tri)) =>
              IF cull THEN ret = "null"
              ELSE ret = "result" /\ result = at(ray, RefPlaneT(ray, tri))
        /\ dot(ray.direction, RefNormal(tri)) < 0 =>
              /\ ret = "result" <=> RefTriHit(ray, tri)
              /\ ret = "result" => result = at(ray, RefPlaneT(ray, tri))

\* a back-face hit culled
C4_Witness ==
    /\ TriDone /\ cull /\ ret = "null"
    /\ dot(ray.direction, RefNormal(tri)) > 0
    /\ RefTriHit(ray, tri)

---------------------------------------------------------------------------
(* SpecPlayer: key events delivered to the Player's handlers *)

geometryVars == <<rayScratch, obstacleScratch, callerVars, callVars>>

\* a keydown event is dispatched to this._keyDownHandler
KeyDown == \E k \in KeyCodes : onKeyDown(KeyEvent(k)) /\ UNCHANGED geometryVars

\* a keyup event is dispatched to this._keyUpHandler
KeyUp == \E k \in KeyCodes : onKeyUp(KeyEvent(k)) /\ UNCHANGED geometryVars

PlayerNext == KeyDown \/ KeyUp

\* a constructed Player, no geometry call under way
PlayerSpecInit ==
    /\ input = InitInput
    /\ event = UndefinedEvent
    /\ lastDown = [f \in Flags |-> FALSE]
    /\ thrown = FALSE
    /\ ModuleInit /\ NoCall
    /\ ray = DefaultRay
    /\ result = NZeroVec
    /\ SphereIdle /\ BoxIdle /\ TriIdle /\ MeshIdle

SpecPlayer == PlayerSpecInit /\ [][PlayerNext]_vars

\* C10: each flag of input is true exactly when the latest key event
\* delivered for one of its two key codes was a keydown.
C10_KeyStateTracking == \A f \in Flags : input[f] = lastDown[f]

---------------------------------------------------------------------------
(* SpecObstacle: one call of Obstacle.intersectRay on drawn inputs *)

\* two triangles facing +z: Far in the plane z = 1, Near in the plane z = 0
FarTriangle == <<-2, -2, 1, 2, -2, 1, -2, 2, 1>>

NearTriangle == <<-2, -2, 0, 2, -2, 0, -2, 2, 0>>

MeshBox == [min |-> Vec(-2, -2, 0), max |-> Vec(2, 2, 1)]

Mesh(vertices, indices, bb, backfaceCulling) ==
    [aabb |-> bb, backfaceCulling |-> backfaceCulling,
     vertices |-> vertices, indices |-> indices]

\* meshes, well formed (non-indexed and indexed, in both orders of the two
\* triangles, empty) and malformed (a vertex buffer that ends inside a
\* triangle, indices out of range or ending inside a triangle, a bounding
\* box that does not bound the triangles)
Geometries ==
    {Mesh(g[1], g[2], g[3], bc) :
        g \in {<<FarTriangle \o NearTriangle, NullIndices, MeshBox>>,
               <<NearTriangle \o FarTriangle, NullIndices, MeshBox>>,
               <<FarTriangle \o NearTriangle, Indices(<<3, 4, 5, 0, 1, 2>>), MeshBox>>,
               <<FarTriangle \o NearTriangle, Indices(<<0, 2, 1, 0, 1, 2, 3, 4, 5>>),
                 MeshBox>>,
               <<<<>>, NullIndices, MeshBox>>,
               <<FarTriangle \o <<-2, -2, 0>>, NullIndices, MeshBox>>,
               <<NearTriangle \o FarTriangle, Indices(<<0, 1, 9, 3, 4, 5, 2>>),
                 MeshBox>>,
               <<FarTriangle \o NearTriangle, NullIndices,
                 [min |-> Vec(0, 0, 0), max |-> Vec(0, 0, 0)]>>},
        bc \in BOOLEAN}

\* world matrices: the identity, a translation, a quarter turn about the x
\* axis, a reflection
Matrices ==
    {Identity,
     Mat(<<1, 0, 0>>, <<0, 1, 0>>, <<0, 0, 1>>, <<1, 0, -1>>),
     Mat(<<1, 0, 0>>, <<0, 0, -1>>, <<0, 1, 0>>, <<0, 0, 0>>),
     Mat(<<-1, 0, 0>>, <<0, 1, 0>>, <<0, 0, 1>>, <<0, 0, 0>>)}

ObstacleRays ==
    {[direction |-> d, origin |-> o, nz |-> {}] :
        o \in Points, d \in UnitAxisDirs \cup {Vec(1, 1, 1), Vec(0, 1, -1)}}

\* what the caller's result vector holds before the call
CallerValue == NVec(I2N(7), I2N(7), I2N(7))

\* o.intersectRay( r, result )
IntersectRayCall(o, r) ==
    \E out \in {intersectRay(
                   [v1 |-> v1, edge1 |-> edge1, edge2 |-> edge2, normal |-> normal,
                    aabb |-> aabb, triangle |-> triangle,
                    intersectionPointAABB |-> intersectionPointAABB,
                    geometry |-> geometry, result |-> result, ret |-> ret,
                    log |-> log],
                   worldMatrix[o], r)} :
       /\ ray' = r
       /\ obstacle' = o
       /\ v1' = out.v1
       /\ edge1' = out.edge1
       /\ edge2' = out.edge2
       /\ normal' = out.normal
       /\ aabb' = out.aabb
       /\ triangle' = out.triangle
       /\ intersectionPointAABB' = out.intersectionPointAABB
       /\ geometry' = out.geometry
       /\ result' = out.result
       /\ ret' = out.ret
       /\ log' = out.log
       /\ op' = "intersectRay"
       /\ UNCHANGED <<playerVars, sphere, box, tri, cull, worldMatrix, sphereResult>>

ObstacleInit ==
    /\ PlayerInit /\ ModuleInit /\ NoCall
    /\ ray \in ObstacleRays
    /\ geometry \in Geometries
    /\ \E m \in Matrices : worldMatrix = [o \in Obstacles |-> m]
    /\ obstacle = "o1"
    /\ result = CallerValue
    /\ SphereIdle /\ BoxIdle /\ TriIdle

ObstacleNext == op = "none" /\ IntersectRayCall(obstacle, ray)

SpecObstacle == ObstacleInit /\ [][ObstacleNext]_vars

ObstacleDone == op = "intersectRay"

\* the ray meets the world-space bounding box of the obstacle called last
BroadPhaseHit ==
    intersectAABB(ray, aabbApplyMatrix4(geometry.aabb, worldMatrix[obstacle]),
                  NZeroVec).ret = "result"

\* the triangles of the buffer: every started group of 9 floats, or of 3 indices
TriangleCount ==
    IF geometry.indices.null THEN (Len(geometry.vertices) + 8) \div 9
    ELSE (Len(geometry.indices.data) + 2) \div 3

\* the number of the vertex at corner j (0, 1, 2) of triangle k (from 0)
RefVertexNo(k, j) ==
    IF geometry.indices.null THEN Number(3 * k + j)
    ELSE Read(geometry.indices.data, Number(3 * k + j))

\* the vertex with number n, NaN unless its three coordinates are in the buffer
RefVertex(n) ==
    IF n.undef THEN NaNVec
    ELSE IF n.v < 0 \/ 3 * n.v + 3 > Len(geometry.vertices) THEN NaNVec
    ELSE Vec(geometry.vertices[3 * n.v + 1], geometry.vertices[3 * n.v + 2],
             geometry.vertices[3 * n.v + 3])

\* triangle k of the buffer in world space
RefTriangle(k) ==
    [a |-> applyMatrix4(RefVertex(RefVertexNo(k, 0)), worldMatrix[obstacle]),
     b |-> applyMatrix4(RefVertex(RefVertexNo(k, 1)), worldMatrix[obstacle]),
     c |-> applyMatrix4(RefVertex(RefVertexNo(k, 2)), worldMatrix[obstacle])]

\* the ray meets triangle k, on a face the culling flag lets through
RefHits(k) ==
    LET t == RefTriangle(k)
    IN /\ ~t.a.nan /\ ~t.b.nan /\ ~t.c.nan
       /\ RefTriHit(ray, t)
       /\ ~(geometry.backfaceCulling /\ dot(ray.direction, RefNormal(t)) > 0)

HitSet == {k \in 0..(TriangleCount - 1) : RefHits(k)}

\* C1: when the ray meets the world-space bounding box, intersectRay returns
\* the hit point of the first triangle in buffer order that the ray meets and
\* has tested the triangles up to that one and no other, in buffer order;
\* it returns null exactly when the ray meets no triangle of the buffer.
C1_FirstHitWins ==
    (ObstacleDone /\ BroadPhaseHit) =>
        /\ \A i \in 1..Len(log.tests) : log.tests[i] = RefTriangle(i - 1)
        /\ IF HitSet = {}
           THEN ret = "null" /\ Len(log.tests) = TriangleCount
           ELSE /\ ret = "result"
                /\ result = at(ray, RefPlaneT(ray, RefTriangle(SetMin(HitSet))))
                /\ Len(log.tests) = SetMin(HitSet) + 1

\* the first triangle in buffer order is hit, and a later one is hit nearer
\* to the origin: the point of the first was returned
C1_Witness ==
    /\ ObstacleDone /\ BroadPhaseHit /\ ret = "result"
    /\ \E k \in HitSet :
           /\ k > SetMin(HitSet)
           /\ NLt(RefPlaneT(ray, RefTriangle(k)),
                  RefPlaneT(ray, RefTriangle(SetMin(HitSet))))
    /\ result = at(ray, RefPlaneT(ray, RefTriangle(SetMin(HitSet))))
    /\ ~geometry.indices.null

\* C2: when ray.intersectAABB misses the world-space bounding box,
\* intersectRay returns null, has read no element of vertices or indices and
\* has tested no triangle, whatever the buffers hold.
C2_BroadPhaseShortCircuit ==
    (ObstacleDone /\ ~BroadPhaseHit) =>
        /\ ret = "null"
        /\ log.vertexReads = 0
        /\ log.indexReads = 0
        /\ log.tests = <<>>

\* a miss of the bounding box of a malformed mesh one of whose triangles the
\* ray would meet
C2_Witness ==
    /\ ObstacleDone /\ ~BroadPhaseHit /\ ret = "null"
    /\ HitSet # {}
    /\ geometry.vertices # <<>>
    /\ log = EmptyLog

---------------------------------------------------------------------------
(* Spec: any sequence of calls of intersectTriangle, intersectBoundingSphere *)
(* and Obstacle.intersectRay, on two obstacles that share one geometry, all  *)
(* working on the same module-level scratch objects                          *)

SeqRays ==
    {[direction |-> Vec(0, 0, -1), origin |-> Vec(-1, -1, 2), nz |-> {}],
     [direction |-> Vec(0, 0, 1), origin |-> Vec(-1, -1, -2), nz |-> {}],
     [direction |-> Vec(0, 0, -1), origin |-> Vec(0, 0, 2), nz |-> {}],
     [direction |-> Vec(0, 0, 1), origin |-> Vec(2, 2, 2), nz |-> {}]}

SeqTriangles ==
    {DefaultTri, [a |-> Vec(1, 0, 0), b |-> Vec(0, 1, 0), c |-> Vec(0, 0, 1)]}

SeqGeometries ==
    {Mesh(FarTriangle \o NearTriangle, NullIndices, MeshBox, FALSE),
     Mesh(NearTriangle \o FarTriangle, Indices(<<0, 1, 9, 3, 4, 5, 2>>), MeshBox, TRUE)}

SeqInit ==
    /\ PlayerInit /\ ModuleInit /\ NoCall
    /\ ray = DefaultRay
    /\ geometry \in SeqGeometries
    /\ worldMatrix = [o \in Obstacles |->
                        IF o = "o1" THEN Identity
                        ELSE Mat(<<1, 0, 0>>, <<0, 1, 0>>, <<0, 0, 1>>, <<-1, -1, 0>>)]
    /\ obstacle = "o1"
    /\ result = CallerValue
    /\ SphereIdle /\ BoxIdle /\ TriIdle

CallIntersectTriangle ==
    \E r \in SeqRays, t \in SeqTriangles, bc \in BOOLEAN : TriangleCall(r, t, bc)

CallIntersectBoundingSphere == \E r \in SeqRays : SphereCall(r, DefaultSphere)

CallIntersectRay == \E o \in Obstacles, r \in SeqRays : IntersectRayCall(o, r)

Next == CallIntersectTriangle \/ CallIntersectBoundingSphere \/ CallIntersectRay

Spec == SeqInit /\ [][Next]_vars

\* C8: whatever the calls before it left in v1, edge1, edge2 and normal, a
\* call of intersectTriangle returns what it returns on freshly constructed
\* scratch vectors.
C8_NoScratchLeak ==
    op = "intersectTriangle" =>
        LET fresh == intersectTriangle(
                         [v1 |-> ZeroVec, edge1 |-> ZeroVec, edge2 |-> ZeroVec,
                          normal |-> ZeroVec],
                         ray, tri, cull, result)
        IN /\ ret = fresh.ret
           /\ ret = "result" => result = fresh.result

\* a hit returned by intersectTriangle after a sphere call that returned a
\* point and an obstacle call that tested triangles
C8_Witness ==
    /\ op = "intersectTriangle"
    /\ ret = "result"
    /\ sphereResult # SZeroVec
    /\ log.tests # <<>>

\* C9: a call of intersectRay changes neither the geometry (geometry.aabb
\* included) nor a world matrix, and changes the caller's result vector only
\* when it returns it.
C9_FrameCondition ==
    [][op' = "intersectRay" =>
          /\ geometry' = geometry
          /\ worldMatrix' = worldMatrix
          /\ ret' = "null" => result' = result]_vars

\* the second obstacle returned null after testing triangles, and result
\* still holds the point an earlier call stored
C9_Witness ==
    /\ op = "intersectRay"
    /\ obstacle = "o2"
    /\ ret = "null"
    /\ log.tests # <<>>
    /\ result # CallerValue

=============================================================================
